---- MODULE Spec2Model ----
(***************************************************************************)
(* Parser combinators of ParserCombinators.ts.                             *)
(*                                                                         *)
(* A parser is a descriptor record; Run(p, inp, s, d) is the application   *)
(* of its transformer to the ParserState s over the input inp.  Every      *)
(* combinator is computed the way its loop computes it.  Besides the       *)
(* returned state, Run yields a history of the transformer calls the       *)
(* combinators made on their direct children and of the resumptions of     *)
(* the generators (a ghost value: the combinators never read it).          *)
(***************************************************************************)
EXTENDS Integers, Sequences, FiniteSets, TLC

VARIABLES input, op, parser, inState, outState, log

vars == <<input, op, parser, inState, outState, log>>

(***************************************************************************)
(* Bounds of the model.                                                    *)
(***************************************************************************)
\* longest input
MaxLen == 3
\* longest list of parsers handed to a combinator, most yields of a generator
MaxParsers == 3
\* default value of sequenceOf's and join's min: all the parsers
DefaultMin == -1

Alphabet == {"a", "b"}

Inputs == UNION {[1..n -> Alphabet] : n \in 0..MaxLen}

Mins == {DefaultMin} \cup (0..(MaxParsers - 1))

(***************************************************************************)
(* Results.  A result is a string, a list of results, or undefined; all    *)
(* three share one record shape.                                           *)
(***************************************************************************)
Undefined == [tag |-> "undefined", v |-> "", items |-> <<>>]

Str(text) == [tag |-> "string", v |-> text, items |-> <<>>]

List(items) == [tag |-> "list", v |-> "", items |-> items]

(***************************************************************************)
(* ParserState and ParserError (ParserState.ts).                           *)
(***************************************************************************)
\* a numeric field of the error record that is not set
Absent == -1

\* state.error === undefined
NoError == [info |-> "", combinator |-> "", index |-> Absent, nparser |-> Absent, nmatches |-> Absent]

ParserError(info, combinator, index) == [info |-> info, combinator |-> combinator, index |-> index, nparser |-> Absent, nmatches |-> Absent]

ParserState(index, result, error) == [index |-> index, result |-> result, error |-> error]

isError(state) == state.error # NoError

\* state.update(index, result): successful state, position and result replaced
update(state, index, result) == ParserState(index, result, NoError)

\* state.resultify(result): successful state at the same index
resultify(state, result) == ParserState(state.index, result, NoError)

\* state.errorify(error): erroring state at the same index, no result
errorify(state, error) == ParserState(state.index, Undefined, error)

(***************************************************************************)
(* Parser descriptors.                                                     *)
(***************************************************************************)
Parser(kind, word, parsers, joiner, min, ret) == [kind |-> kind, word |-> word, parsers |-> parsers, joiner |-> joiner, min |-> min, ret |-> ret]

\* leaf matcher of a literal word
Lit(word) == Parser("str", word, <<>>, <<>>, 0, "")

SequenceOf(parsers, min) == Parser("sequenceOf", "", parsers, <<>>, min, "")

Choice(parsers) == Parser("choice", "", parsers, <<>>, 0, "")

Many(p, min) == Parser("many", "", <<p>>, <<>>, min, "")

\* between(left, right)(content)
Between(left, right, content) == Parser("between", "", <<left, content, right>>, <<>>, 0, "")

Join(parsers, joiner, min) == Parser("join", "", parsers, <<joiner>>, min, "")

JoinWJR(parsers, joiner, min) == Parser("joinWJR", "", parsers, <<joiner>>, min, "")

ManyJoin(p, joiner, min) == Parser("manyJoin", "", <<p>>, <<joiner>>, min, "")

ManyJoinWJR(p, joiner, min) == Parser("manyJoinWJR", "", <<p>>, <<joiner>>, min, "")

\* p.map(result => result[1])
MapSecond(p) == Parser("mapSecond", "", <<p>>, <<>>, 0, "")

\* contextual(generator): the generator yields `steps` in turn and returns
\* the list of the values it was resumed with
Contextual(steps) == Parser("contextual", "", steps, <<>>, 0, "values")

\* stateContextual(generator): the generator yields `steps` in turn and
\* returns a state built, as `ret` says, from the states it was resumed with
StateContextual(steps, ret) == Parser("stateContextual", "", steps, <<>>, 0, ret)

\* a step of a generator that yields the matcher of the word it was last
\* resumed with
Prev == Parser("prev", "", <<>>, <<>>, 0, "")

\* the characters of the words the leaf matchers match
WordChars == [w \in {"a", "b", "ab"} |-> CASE w = "a" -> <<"a">> [] w = "b" -> <<"b">> [] OTHER -> <<"a", "b">>]

Leaves == {Lit("a"), Lit("b"), Lit("ab")}

(***************************************************************************)
(* History of transformer calls and generator resumptions.                 *)
(***************************************************************************)
Outcome(state, history) == [st |-> state, log |-> history]

\* combinator `by` at nesting depth d called the transformer of its child i
CallEvent(by, d, i, in, out) == [ev |-> "call", by |-> by, d |-> d, i |-> i, inIdx |-> in.index, inErr |-> isError(in), outIdx |-> out.index, outErr |-> isError(out), res |-> out.result]

\* the generator of `by` was resumed for the i-th time with `next`
ResumeEvent(by, d, i, next) == [ev |-> "resume", by |-> by, d |-> d, i |-> i, inIdx |-> next.index, inErr |-> isError(next), outIdx |-> next.index, outErr |-> isError(next), res |-> next.result]

(***************************************************************************)
(* Leaf matcher (external to the combinators): matches the characters of   *)
(* p.word at state.index.  On a mismatch it fails at the position where    *)
(* the mismatch was detected, having consumed the characters that matched. *)
(***************************************************************************)
MatchLen(chars, inp, index) == LET K == {k \in 0..Len(chars) : index + k <= Len(inp) /\ \A j \in 1..k : inp[index + j] = chars[j]}
                               IN  CHOOSE k \in K : \A m \in K : m <= k

str(p, inp, state) ==
    IF isError(state) THEN state
    ELSE LET chars == WordChars[p.word]
             k == MatchLen(chars, inp, state.index)
         IN  IF k = Len(chars)
             THEN update(state, state.index + k, Str(p.word))
             ELSE errorify(update(state, state.index + k, Undefined), ParserError("str: no match for " \o p.word, "str", state.index + k))

(***************************************************************************)
(* Parser composition operators (Parser.ts).                               *)
(***************************************************************************)
\* parser.map(results => results[1]): the second element of a list result
mapSecond(state) == IF isError(state) THEN state ELSE ParserState(state.index, state.result.items[2], NoError)

\* parser.mapError(from => ({ ...from.error, combinator })): restamps a failure
mapError(state, combinator) == IF isError(state) THEN errorify(state, [state.error EXCEPT !.combinator = combinator]) ELSE state

\* Parser.void: succeeds without consuming, with no result
void(state) == IF isError(state) THEN state ELSE resultify(state, Undefined)

\* succeed(value): succeeds with value without consuming
succeed(value, state) == IF isError(state) THEN state ELSE resultify(state, value)

RECURSIVE Run(_, _, _, _)

(***************************************************************************)
(* sequenceOf(parsers, min)                                                *)
(***************************************************************************)
\* let lastIndex = 0
sequenceOfLastIndex(inputState) == 0

\* mutant: the default min is not taken to mean all the parsers
sequenceOfFailsBelowMin(finalError, psucceed, min) == finalError # NoError /\ psucceed < min

\* mutant: any failure fails the sequence, whatever min
sequenceOfFailsAlways(finalError, psucceed, min) == finalError # NoError

\* finalError && (psucceed < min || min === -1)
sequenceOfFails(finalError, psucceed, min) == finalError # NoError /\ (psucceed < min \/ min = DefaultMin)

RECURSIVE sequenceOfLoop(_, _, _, _, _)

\* for (const parser of parsers) { ... }, from the i-th parser on
sequenceOfLoop(parsers, inp, d, i, acc) ==
    IF i > Len(parsers) THEN acc
    ELSE LET r == Run(parsers[i], inp, acc.nextState, d + 1)
             nextState == r.st
         IN  sequenceOfLoop(parsers, inp, d, i + 1,
                 [nextState |-> nextState,
                  finalError |-> IF isError(nextState) THEN nextState.error ELSE acc.finalError,
                  psucceed |-> IF isError(nextState) THEN (acc.psucceed - 1) + 1 ELSE acc.psucceed + 1,
                  lastIndex |-> IF isError(nextState) THEN acc.lastIndex ELSE nextState.index,
                  results |-> Append(acc.results, nextState.result),
                  log |-> acc.log \o r.log \o <<CallEvent("sequenceOf", d, i, acc.nextState, nextState)>>])

sequenceOf(parsers, min, inp, inputState, d) ==
    IF isError(inputState) THEN Outcome(inputState, <<>>)
    ELSE LET acc == sequenceOfLoop(parsers, inp, d, 1,
                        [nextState |-> inputState, finalError |-> NoError, psucceed |-> 0,
                         lastIndex |-> sequenceOfLastIndex(inputState), results |-> <<>>, log |-> <<>>])
         IN  IF sequenceOfFails(acc.finalError, acc.psucceed, min)
             THEN Outcome(errorify(acc.nextState, [acc.finalError EXCEPT !.combinator = "sequenceOf", !.nparser = acc.psucceed]), acc.log)
             ELSE Outcome(update(acc.nextState, acc.lastIndex, List(acc.results)), acc.log)

(***************************************************************************)
(* choice(...parsers)                                                      *)
(***************************************************************************)
\* mutant: the state of the first alternative is returned, failed or not
choiceReturnsAlways(nextState) == TRUE

\* if (!nextState.error) return nextState
choiceReturns(nextState) == ~isError(nextState)

RECURSIVE choiceLoop(_, _, _, _, _, _)

\* for (const parser of parsers) { ... }, from the i-th parser on
choiceLoop(parsers, inp, d, i, inputState, history) ==
    IF i > Len(parsers)
    THEN Outcome(errorify(inputState, ParserError("Unable to match with any parser", "choice", inputState.index)), history)
    ELSE LET r == Run(parsers[i], inp, inputState, d + 1)
             nextState == r.st
             h == history \o r.log \o <<CallEvent("choice", d, i, inputState, nextState)>>
         IN  IF choiceReturns(nextState) THEN Outcome(nextState, h)
             ELSE choiceLoop(parsers, inp, d, i + 1, inputState, h)

choice(parsers, inp, inputState, d) ==
    IF isError(inputState) THEN Outcome(inputState, <<>>)
    ELSE choiceLoop(parsers, inp, d, 1, inputState, <<>>)

(***************************************************************************)
(* many(parser, min)                                                       *)
(***************************************************************************)
\* `Unable to match at least ${min} input(s), matched ${n} instead`
UnableInfo(min, n) == "Unable to match at least " \o ToString(min) \o " input(s), matched " \o ToString(n) \o " instead"

RECURSIVE manyLoop(_, _, _, _, _)

\* while (!done) { ... }
manyLoop(p, inp, d, i, acc) ==
    LET r == Run(p, inp, acc.nextState, d + 1)
        nextState == r.st
        h == acc.log \o r.log \o <<CallEvent("many", d, i, acc.nextState, nextState)>>
    IN  IF isError(nextState)
        THEN [nextState |-> nextState, results |-> acc.results, log |-> h]
        ELSE manyLoop(p, inp, d, i + 1, [nextState |-> nextState, results |-> Append(acc.results, nextState.result), log |-> h])

many(p, min, inp, inputState, d) ==
    IF isError(inputState) THEN Outcome(inputState, <<>>)
    ELSE LET acc == manyLoop(p, inp, d, 1, [nextState |-> inputState, results |-> <<>>, log |-> <<>>])
         IN  IF Len(acc.results) < min
             THEN Outcome(errorify(inputState, [ParserError(UnableInfo(min, Len(acc.results)), "many", inputState.index) EXCEPT !.nmatches = Len(acc.results)]), acc.log)
             ELSE Outcome(resultify(acc.nextState, List(acc.results)), acc.log)

(***************************************************************************)
(* between(left, right)(content)                                           *)
(***************************************************************************)
\* tuple(...data)
tuple(data) == data

between(left, right, content, inp, inputState, d) ==
    LET r == sequenceOf(tuple(<<left, content, right>>), DefaultMin, inp, inputState, d)
    IN  Outcome(mapSecond(r.st), r.log)

(***************************************************************************)
(* join / joinWJR(parsers, joiner, min)                                    *)
(***************************************************************************)
\* the list __join hands to sequenceOf
joinedParsers(parsers, joiner, joinResults) ==
    IF parsers = <<>> THEN <<>>
    ELSE IF joinResults
         THEN [k \in 1..(2 * Len(parsers) - 1) |-> IF k % 2 = 1 THEN parsers[(k + 1) \div 2] ELSE joiner]
         ELSE [k \in 1..Len(parsers) |-> IF k = 1 THEN parsers[1] ELSE MapSecond(SequenceOf(tuple(<<joiner, parsers[k]>>), DefaultMin))]

__join(parsers, joiner, min, joinResults, inp, inputState, d) ==
    LET r == sequenceOf(joinedParsers(parsers, joiner, joinResults), min, inp, inputState, d)
    IN  Outcome(mapError(r.st, "join"), r.log)

join(parsers, joiner, min, inp, inputState, d) == __join(parsers, joiner, min, FALSE, inp, inputState, d)

joinWJR(parsers, joiner, min, inp, inputState, d) == __join(parsers, joiner, min, TRUE, inp, inputState, d)

(***************************************************************************)
(* manyJoin / manyJoinWJR(parser, joiner, min)                             *)
(***************************************************************************)
RECURSIVE manyJoinLoop(_, _, _, _, _, _, _)

\* while (!done) { ... }; i is the number of the iteration
manyJoinLoop(p, joiner, joinResults, inp, d, i, acc) ==
    LET starts == i = 1
        j == Run(joiner, inp, acc.nextState, d + 1)
        afterJoiner == IF starts THEN acc.nextState ELSE j.st
        joinerDone == ~starts /\ isError(afterJoiner)
        joinerLog == IF starts THEN <<>> ELSE j.log \o <<CallEvent("manyJoin.joiner", d, i, acc.nextState, afterJoiner)>>
        joinerResults == IF ~starts /\ ~isError(afterJoiner) /\ joinResults THEN Append(acc.results, afterJoiner.result) ELSE acc.results
        r == Run(p, inp, afterJoiner, d + 1)
        nextState == r.st
        done == joinerDone \/ isError(nextState)
        next == [nextState |-> nextState,
                 results |-> IF isError(nextState) THEN joinerResults ELSE Append(joinerResults, nextState.result),
                 np |-> IF isError(nextState) THEN acc.np ELSE acc.np + 1,
                 log |-> acc.log \o joinerLog \o r.log \o <<CallEvent("manyJoin", d, i, afterJoiner, nextState)>>]
    IN  IF done THEN next ELSE manyJoinLoop(p, joiner, joinResults, inp, d, i + 1, next)

__manyJoin(p, joiner, min, joinResults, inp, inputState, d) ==
    IF isError(inputState) THEN Outcome(inputState, <<>>)
    ELSE LET acc == manyJoinLoop(p, joiner, joinResults, inp, d, 1, [nextState |-> inputState, results |-> <<>>, np |-> 0, log |-> <<>>])
         IN  IF acc.np < min
             THEN Outcome(errorify(inputState, [ParserError(UnableInfo(min, Len(acc.results)), "manyJoin", inputState.index) EXCEPT !.nmatches = Len(acc.results)]), acc.log)
             ELSE Outcome(resultify(acc.nextState, List(acc.results)), acc.log)

manyJoin(p, joiner, min, inp, inputState, d) == __manyJoin(p, joiner, min, FALSE, inp, inputState, d)

manyJoinWJR(p, joiner, min, inp, inputState, d) == __manyJoin(p, joiner, min, TRUE, inp, inputState, d)

(***************************************************************************)
(* contextual(generator)                                                   *)
(***************************************************************************)
\* the parser the generator yields at its k-th yield, having been resumed
\* with the values `sent`
generatorYield(steps, k, sent) == IF steps[k].kind = "prev" THEN Lit(sent[k - 1].v) ELSE steps[k]

\* iterator.next(next), the generator having been resumed with `sent` so far
iteratorNext(steps, sent) ==
    IF Len(sent) < Len(steps)
    THEN [done |-> FALSE, value |-> generatorYield(steps, Len(sent) + 1, sent)]
    ELSE [done |-> TRUE, value |-> List(sent)]

\* mutant: the failure of a yielded parser is passed on as it is
contextualErrorKept(state) == state

\* .mapError(state => ({ ...state.error, combinator: 'contextual' }))
contextualError(state) == mapError(state, "contextual")

RECURSIVE runStep(_, _, _, _, _)

\* runStep(next) applied, through chain, to `state`; `sent` are the values
\* the generator has been resumed with, `next` the last of them.
\* nextParser.chain(runStep) runs nextParser, returns its state if that is
\* erroring, and otherwise runs runStep(result) on the state it returned.
runStep(steps, inp, d, state, sent) ==
    LET next == IF sent = <<>> THEN Undefined ELSE sent[Len(sent)]
        iteration == iteratorNext(steps, sent)
        resumed == <<ResumeEvent("contextual", d, Len(sent) + 1, ParserState(state.index, next, NoError))>>
    IN  IF iteration.done THEN Outcome(succeed(iteration.value, state), resumed)
        ELSE LET r == Run(iteration.value, inp, state, d + 1)
                 h == resumed \o r.log \o <<CallEvent("contextual", d, Len(sent) + 1, state, r.st)>>
             IN  IF isError(r.st) THEN Outcome(contextualError(r.st), h)
                 ELSE LET rest == runStep(steps, inp, d, r.st, Append(sent, r.st.result))
                      IN  Outcome(contextualError(rest.st), h \o rest.log)

\* Parser.void.chain(() => runStep())
contextual(steps, inp, inputState, d) ==
    LET v == void(inputState)
    IN  IF isError(v) THEN Outcome(v, <<>>) ELSE runStep(steps, inp, d, v, <<>>)

(***************************************************************************)
(* stateContextual(generator)                                              *)
(***************************************************************************)
\* the state the generator returns, having been resumed with `received`
generatorReturn(ret, received) ==
    LET last == received[Len(received)]
    IN  IF ret = "last" THEN last
        ELSE resultify(last, List([k \in 1..Len(received) |-> received[k].result]))

RECURSIVE transformStep(_, _, _, _, _, _, _)

\* transformStep(next); n calls of iterator.next were made before, and the
\* generator was resumed with `received` (the argument of the first call of
\* iterator.next, which starts the generator, is not seen by it)
transformStep(steps, ret, inp, d, next, received, n) ==
    LET seen == IF n = 0 THEN received ELSE Append(received, next)
        resumed == <<ResumeEvent("stateContextual", d, n + 1, next)>>
    IN  IF n >= Len(steps) THEN Outcome(generatorReturn(ret, seen), resumed)
        ELSE LET r == Run(steps[n + 1], inp, next, d + 1)
                 rest == transformStep(steps, ret, inp, d, r.st, seen, n + 1)
             IN  Outcome(rest.st, resumed \o r.log \o <<CallEvent("stateContextual", d, n + 1, next, r.st)>> \o rest.log)

stateContextual(steps, ret, inp, inputState, d) == transformStep(steps, ret, inp, d, inputState, <<>>, 0)

(***************************************************************************)
(* parser.transformer(state)                                               *)
(***************************************************************************)
Run(p, inp, state, d) ==
    CASE p.kind = "str" -> Outcome(str(p, inp, state), <<>>)
      [] p.kind = "sequenceOf" -> sequenceOf(p.parsers, p.min, inp, state, d)
      [] p.kind = "choice" -> choice(p.parsers, inp, state, d)
      [] p.kind = "many" -> many(p.parsers[1], p.min, inp, state, d)
      [] p.kind = "between" -> between(p.parsers[1], p.parsers[3], p.parsers[2], inp, state, d)
      [] p.kind = "join" -> join(p.parsers, p.joiner[1], p.min, inp, state, d)
      [] p.kind = "joinWJR" -> joinWJR(p.parsers, p.joiner[1], p.min, inp, state, d)
      [] p.kind = "manyJoin" -> manyJoin(p.parsers[1], p.joiner[1], p.min, inp, state, d)
      [] p.kind = "manyJoinWJR" -> manyJoinWJR(p.parsers[1], p.joiner[1], p.min, inp, state, d)
      [] p.kind = "mapSecond" -> LET r == Run(p.parsers[1], inp, state, d) IN Outcome(mapSecond(r.st), r.log)
      [] p.kind = "contextual" -> contextual(p.parsers, inp, state, d)
      [] p.kind = "stateContextual" -> stateContextual(p.parsers, p.ret, inp, state, d)

(***************************************************************************)
(* The parsers and states the combinators are applied to.                  *)
(***************************************************************************)
\* lists of at most MaxParsers parsers drawn from S
ListsOf(S) == UNION {[1..n -> S] : n \in 0..MaxParsers}

\* the parsers that are joined, and those that join them
Joined == {Lit("a"), Lit("ab")}

Joiners == {Lit("b")}

\* composite parsers used as children
Composites == {SequenceOf(<<Lit("a"), Lit("b")>>, DefaultMin), Many(Lit("a"), 1)}

\* children of many and manyJoin: on success they consume input
Repeatable == Leaves \cup Composites \cup {Choice(<<Lit("ab"), Lit("b")>>)}

\* the yields of a generator: a step that depends on the value the generator
\* was resumed with follows a step whose result is a word
GeneratorSteps == {steps \in ListsOf(Leaves \cup {Prev}) : \A k \in 1..Len(steps) : steps[k] = Prev => k > 1}

\* an error raised before the combinator is invoked
PriorError(index) == ParserError("prior failure", "prior", index)

\* the states a parser over inp may be invoked on
InStates(inp) == {ParserState(i, Undefined, NoError) : i \in 0..Len(inp)} \cup {ParserState(i, Undefined, PriorError(i)) : i \in 0..Len(inp)}

(***************************************************************************)
(* State machine: an input is fixed, then a parser is built and invoked    *)
(* on a state over that input.                                             *)
(***************************************************************************)
Init ==
    /\ input \in Inputs
    /\ op = "none"
    /\ parser = Lit("a")
    /\ inState = ParserState(0, Undefined, NoError)
    /\ outState = ParserState(0, Undefined, NoError)
    /\ log = <<>>

\* p.transformer(state) for a parser p built by combinator `name`
Invoke(name, p, state) ==
    LET r == Run(p, input, state, 0)
    IN  /\ op' = name
        /\ parser' = p
        /\ inState' = state
        /\ outState' = r.st
        /\ log' = r.log
        /\ UNCHANGED input

CallSequenceOf ==
    /\ op = "none"
    /\ \E parsers \in ListsOf(Leaves), min \in Mins, state \in InStates(input) : Invoke("sequenceOf", SequenceOf(parsers, min), state)

CallChoice ==
    /\ op = "none"
    /\ \E parsers \in ListsOf(Leaves), state \in InStates(input) : Invoke("choice", Choice(parsers), state)

CallMany ==
    /\ op = "none"
    /\ \E p \in Repeatable, min \in 0..(MaxParsers - 1), state \in InStates(input) : Invoke("many", Many(p, min), state)

CallBetween ==
    /\ op = "none"
    /\ \E left \in Leaves, content \in Leaves \cup Composites, right \in Leaves, state \in InStates(input) : Invoke("between", Between(left, right, content), state)

CallJoin ==
    /\ op = "none"
    /\ \E parsers \in ListsOf(Joined), joiner \in Joiners, min \in Mins, state \in InStates(input) : Invoke("join", Join(parsers, joiner, min), state)

CallJoinWJR ==
    /\ op = "none"
    /\ \E parsers \in ListsOf(Joined), joiner \in Joiners, min \in Mins, state \in InStates(input) : Invoke("joinWJR", JoinWJR(parsers, joiner, min), state)

CallManyJoin ==
    /\ op = "none"
    /\ \E p \in Repeatable, joiner \in Joiners, min \in 0..(MaxParsers - 1), state \in InStates(input) : Invoke("manyJoin", ManyJoin(p, joiner, min), state)

CallManyJoinWJR ==
    /\ op = "none"
    /\ \E p \in Repeatable, joiner \in Joiners, min \in 0..(MaxParsers - 1), state \in InStates(input) : Invoke("manyJoinWJR", ManyJoinWJR(p, joiner, min), state)

CallContextual ==
    /\ op = "none"
    /\ \E steps \in GeneratorSteps, state \in InStates(input) : Invoke("contextual", Contextual(steps), state)

CallStateContextual ==
    /\ op = "none"
    /\ \E steps \in ListsOf(Leaves) \ {<<>>}, ret \in {"last", "resultify"}, state \in InStates(input) : Invoke("stateContextual", StateContextual(steps, ret), state)

Next ==
    \/ CallSequenceOf
    \/ CallChoice
    \/ CallMany
    \/ CallBetween
    \/ CallJoin
    \/ CallJoinWJR
    \/ CallManyJoin
    \/ CallManyJoinWJR
    \/ CallContextual
    \/ CallStateContextual

Spec == Init /\ [][Next]_vars

(***************************************************************************)
(* Properties.                                                             *)
(***************************************************************************)
Ok(state) == ~isError(state)

\* the calls combinator `by` made on its direct children, in order, when it
\* is the parser that was invoked
Calls(by) == SelectSeq(log, LAMBDA e : e.ev = "call" /\ e.by = by /\ e.d = 0)

\* the resumptions of the generator and the calls of the parsers it yielded
Steps(by) == SelectSeq(log, LAMBDA e : e.by = by /\ e.d = 0)

\* the calls among `calls` that returned a successful state
Succeeded(calls) == SelectSeq(calls, LAMBDA e : ~e.outErr)

\* the index reached by the last successful call, the given one without any
LastGoodIndex(calls, index) == IF Succeeded(calls) = <<>> THEN index ELSE Succeeded(calls)[Len(Succeeded(calls))].outIdx

RECURSIVE Threaded(_, _, _, _)

\* the state the k-th of parsers returns when each is run on the state the
\* previous one returned, the first on `state`
Threaded(parsers, inp, state, k) == IF k = 0 THEN state ELSE Run(parsers[k], inp, Threaded(parsers, inp, state, k - 1), 1).st

\* C1: every combinator invoked on an already-erroring state returns that
\* state unchanged (same index, same result, identical error record), and no
\* child consumes input.
C1_ShortCircuit ==
    (op # "none" /\ isError(inState)) =>
        /\ outState = inState
        /\ \A k \in 1..Len(log) : log[k].ev = "call" => log[k].outIdx = log[k].inIdx

\* C2: with the default min, sequenceOf([A, B, C]) on a successful state
\* succeeds iff A, B and C succeed, each run on the state the previous one
\* returned; then the result is [rA, rB, rC] and the index the one C reached.
C2_StrictSequence ==
    (op = "sequenceOf" /\ parser.min = DefaultMin /\ Len(parser.parsers) = 3 /\ Ok(inState)) =>
        LET sA == Threaded(parser.parsers, input, inState, 1)
            sB == Threaded(parser.parsers, input, inState, 2)
            sC == Threaded(parser.parsers, input, inState, 3)
        IN  /\ Ok(outState) <=> (Ok(sA) /\ Ok(sB) /\ Ok(sC))
            /\ Ok(outState) => (outState.result = List(<<sA.result, sB.result, sC.result>>) /\ outState.index = sC.index)

\* C2 witness: a strict sequence of three parsers that succeeded, having
\* consumed input.
C2_Witness ==
    /\ op = "sequenceOf" /\ parser.min = DefaultMin /\ Len(parser.parsers) = 3
    /\ Ok(inState) /\ Ok(outState) /\ outState.index > inState.index + 2

\* the positions of the parsers that fail when run in order from `state`
FailedAt(parsers, inp, state) == {k \in 1..Len(parsers) : isError(Threaded(parsers, inp, state, k))}

\* the largest element of a non-empty set of numbers
Largest(S) == CHOOSE k \in S : \A m \in S : m <= k

Matching(parsers, inp, state) == {k \in 1..Len(parsers) : Ok(Run(parsers[k], inp, state, 1).st)}

\* the smallest element of a non-empty set of numbers
Smallest(S) == CHOOSE k \in S : \A m \in S : k <= m

\* C4: choice runs every alternative it tries on the original incoming
\* state, returns verbatim the state of the first alternative, in argument
\* order, that succeeds, and runs no alternative after that one.
C4_ChoiceIndependence ==
    (op = "choice" /\ Ok(inState)) =>
        LET matching == Matching(parser.parsers, input, inState)
            calls == Calls("choice")
        IN  /\ \A k \in 1..Len(calls) : calls[k].i = k /\ calls[k].inIdx = inState.index /\ ~calls[k].inErr
            /\ matching # {} =>
                   /\ outState = Run(parser.parsers[Smallest(matching)], input, inState, 1).st
                   /\ Len(calls) = Smallest(matching)

\* C4 witness: the first alternative failed after consuming input, a later
\* one succeeded and another one follows it.
C4_Witness ==
    /\ op = "choice" /\ Ok(inState) /\ Ok(outState)
    /\ Len(Calls("choice")) = 2 /\ Len(parser.parsers) = 3
    /\ Calls("choice")[1].outErr /\ Calls("choice")[1].outIdx > inState.index

\* C5: when many(p, min) succeeds on a successful state, its result is the
\* list of the results of the successful applications of p and its index is
\* the index reached by the last successful application (the incoming index
\* when there was none).
C5_ManyLastGoodIndex ==
    (op = "many" /\ Ok(inState) /\ Ok(outState)) =>
        /\ outState.result = List([k \in 1..Len(Succeeded(Calls("many"))) |-> Succeeded(Calls("many"))[k].res])
        /\ outState.index = LastGoodIndex(Calls("many"), inState.index)

\* the number of main parsers of a join or joinWJR that succeeded: in
\* joinWJR the joiners are the even entries of the list that is run
MainSucceeded == Len(SelectSeq(Calls("sequenceOf"), LAMBDA e : ~e.outErr /\ (op = "joinWJR" => e.i % 2 = 1)))

\* C6: in join and joinWJR with min other than -1, when a parser failed the
\* combinator succeeds only if at least min main parsers succeeded, joiners
\* excluded.
C6_JoinMinCountsMainParsers ==
    (op \in {"join", "joinWJR"} /\ Ok(inState) /\ parser.min # DefaultMin /\ Len(Succeeded(Calls("sequenceOf"))) < Len(Calls("sequenceOf"))) =>
        (Ok(outState) => MainSucceeded >= parser.min)

\* C7: in contextual, on a successful state: the generator is resumed for
\* step N+1 only after the parser yielded at step N returned a successful
\* state, and with exactly that parser's result; once a yielded parser
\* fails the generator is not resumed, no later parser is run and the error
\* returned has combinator name 'contextual'; if the generator completes, the
\* parser succeeds with the returned value at the index the last yielded
\* parser reached.
C7_ContextualSteps ==
    (op = "contextual" /\ Ok(inState)) =>
        LET steps == Steps("contextual")
            calls == Calls("contextual")
            n == Len(steps)
            completed == n = 2 * Len(parser.parsers) + 1
        IN  /\ n >= 1 /\ Len(calls) <= Len(parser.parsers)
            /\ \A j \in 1..n : j % 2 = 1 =>
                   /\ steps[j].ev = "resume" /\ steps[j].i = (j + 1) \div 2
                   /\ IF j = 1 THEN steps[j].res = Undefined /\ steps[j].inIdx = inState.index
                      ELSE ~steps[j - 1].outErr /\ steps[j].res = steps[j - 1].res /\ steps[j].inIdx = steps[j - 1].outIdx
            /\ \A j \in 1..n : j % 2 = 0 =>
                   /\ steps[j].ev = "call" /\ steps[j].i = j \div 2 /\ ~steps[j].inErr
                   /\ steps[j].inIdx = steps[j - 1].inIdx
                   /\ steps[j].outErr => (j = n /\ isError(outState) /\ outState.error.combinator = "contextual")
                   /\ ~steps[j].outErr => j < n
            /\ completed =>
                   /\ Ok(outState)
                   /\ outState.result = List([k \in 1..Len(calls) |-> calls[k].res])
                   /\ outState.index = LastGoodIndex(calls, inState.index)
            /\ Ok(outState) => completed

\* C7 witness: the parser yielded at the second of three steps failed, after
\* the first had consumed input.
C7_Witness ==
    /\ op = "contextual" /\ Ok(inState) /\ Len(parser.parsers) = 3
    /\ Len(Calls("contextual")) = 2 /\ Calls("contextual")[2].outErr
    /\ Calls("contextual")[1].outIdx > inState.index

\* the list of parsers the sequenceOf underlying between, strict sequenceOf
\* or join runs
Underlying == IF op = "join" THEN joinedParsers(parser.parsers, parser.joiner[1], FALSE) ELSE parser.parsers

\* C8: when between, strict sequenceOf or join fails on a successful state
\* because a child failed, the error carries the combinator's own name
\* ('between', 'sequenceOf', 'join') and the message and index of the child
\* error that caused the failure.
C8_OwnCombinatorName ==
    (/\ op \in {"between", "sequenceOf", "join"}
     /\ op # "between" => parser.min = DefaultMin
     /\ Ok(inState) /\ isError(outState)) =>
        LET cause == Threaded(Underlying, input, inState, Smallest(FailedAt(Underlying, input, inState))).error
        IN  /\ FailedAt(Underlying, input, inState) # {}
            /\ outState.error.combinator = op
            /\ outState.error.info = cause.info
            /\ outState.error.index = cause.index

\* C9: for sequenceOf, choice, many, between, join, joinWJR, manyJoin and
\* manyJoinWJR, a successful output state has an index not lower than the
\* index of the successful state the combinator was invoked on.
C9_IndexNeverDecreases ==
    (/\ op \in {"sequenceOf", "choice", "many", "between", "join", "joinWJR", "manyJoin", "manyJoinWJR"}
     /\ Ok(inState) /\ Ok(outState)) =>
        outState.index >= inState.index

\* no failed attempt of the parser or of the joiner of a manyJoin moved the
\* index: whatever was consumed was consumed by a match
FailuresConsumeNothing == \A k \in 1..Len(log) : (log[k].ev = "call" /\ log[k].d = 0 /\ log[k].outErr) => log[k].outIdx = log[k].inIdx

\* C10: when manyJoin or manyJoinWJR succeeds, its index is the one reached
\* by the last successful match of parser (a trailing joiner is not
\* consumed), and the output of manyJoinWJR holds k parser results
\* interleaved with k-1 joiner results.  Stated for the runs in which the
\* failed attempts consumed nothing, so that only a joiner can have moved
\* the index past the last match of parser.
C10_TrailingJoinerNotConsumed ==
    (op \in {"manyJoin", "manyJoinWJR"} /\ Ok(inState) /\ Ok(outState) /\ FailuresConsumeNothing) =>
        LET k == Len(Succeeded(Calls("manyJoin")))
        IN  /\ outState.index = LastGoodIndex(Calls("manyJoin"), inState.index)
            /\ op = "manyJoinWJR" => Len(outState.result.items) = (IF k = 0 THEN 0 ELSE 2 * k - 1)
            /\ op = "manyJoin" => Len(outState.result.items) = k

====
